---- MODULE Spec2Model ----
(***************************************************************************)
(* Model of src/duplicate.py: the duplicate-file detector.                 *)
(*                                                                         *)
(* The script reads three paths, creates the output folder, hashes every   *)
(* file of the reference tree (folder1, recursively) into the dictionary   *)
(* folder1_hashes, then hashes every regular file that is a direct child   *)
(* of the candidate folder (folder2): a digest found in the dictionary is  *)
(* reported as a duplicate, any other file is copied to the output folder. *)
(* Nothing in the script catches an exception, so the first exception of   *)
(* any call ends the interpreter with a traceback and exit status 1.       *)
(*                                                                         *)
(* File contents are sequences of blocks; one block stands for 2048 bytes, *)
(* so that the 4096-byte read of hash_file is a read of ChunkSize blocks.  *)
(* The three directories are distinct and none lies inside another.        *)
(* folder1 may hold a symbolic link to itself, which os.walk lists and     *)
(* does not walk into.                                                     *)
(***************************************************************************)
EXTENDS Integers, Sequences, FiniteSets, TLC

\* Longest file content of the modelled file systems, in blocks.
MaxLen == 1

\* The most times the script is run on one file system.
MaxRuns == 2

\* f.read(4096) of hash_file, in blocks of 2048 bytes.
ChunkSize == 2

\* The values a block of a file can take.
Bytes == {1, 2}

\* Every file content of at most MaxLen blocks.
Contents == UNION {[1..n -> Bytes] : n \in 0..MaxLen}

NoFile == [kind |-> "absent"]

VARIABLES
    refKind,        \* folder1: "dir", "missing" or "notdir"
    refFiles,       \* the files under folder1, in the order os.walk yields them
    refLink,        \* folder1 holds "loop", a symbolic link to folder1 itself
    candKind,       \* folder2: "dir", "missing" or "notdir"
    candEntries,    \* the entries of folder2, in the order os.listdir returns them
    outKind,        \* output_folder: "absent", "notdir", "dir" or "dir_ro"
    outFiles,       \* the files of output_folder: name -> [content, mtime]
    pc,             \* position of the script
    i,              \* number of reference files the Step 1 loop has finished
    j,              \* number of folder2 entries the Step 2 loop has finished
    folder1_hashes, \* the dictionary: digest -> path
    duplicates,     \* the list of duplicate file names
    unique_count,   \* the counter of copied files
    handles,        \* the files hash_file holds open
    pos,            \* read offset of the open file, in blocks
    sha256,         \* state of the hashlib.sha256 object of hash_file
    stdout,         \* the lines printed
    exitCode,       \* -1 while running, then the interpreter's exit status
    error,          \* the uncaught exception, "none" if there is none
    created,        \* history: os.makedirs created output_folder
    hashed,         \* history: the paths hash_file returned a digest for
    copied,         \* history: the names shutil.copy2 wrote, in order
    linkSeen,       \* os.walk has met the link "loop" among the subfolders
    chunks,         \* history: the chunks hash_file has fed to sha256.update
    runNo,          \* history: the number of this run of the script
    prev            \* history: how the run before this one ended

vars == <<refKind, refFiles, candKind, candEntries, outKind, outFiles, pc, i, j,
          folder1_hashes, duplicates, unique_count, handles, pos, sha256,
          stdout, exitCode, error, created, hashed, copied, runNo, prev,
          refLink, linkSeen, chunks>>

fsIn == <<refKind, refFiles, refLink, candKind, candEntries>>

earlier == <<runNo, prev>>

\* No run before this one.
NoRun == [pc |-> "none"]

----------------------------------------------------------------------------
(* hashlib.sha256: the digest is modelled as the injective numbering of the *)
(* blocks absorbed so far (base 3, digits 1 and 2), which is what collision *)
(* resistance amounts to on a bounded set of contents.                      *)

\* hashlib.sha256(): the state before any update.
Sha256New == 0

RECURSIVE Sha256Update_SizeOnly(_, _)
\* Sha256Update gone wrong: a digest of the length of the data alone.
Sha256Update_SizeOnly(h, chunk) ==
    IF chunk = <<>> THEN h
    ELSE Sha256Update_SizeOnly(h * 3 + 1, Tail(chunk))

RECURSIVE Sha256Update(_, _)
\* sha256.update(chunk): absorb the blocks of chunk, in order.
Sha256Update(h, chunk) ==
    IF chunk = <<>> THEN h
    ELSE Sha256Update(h * 3 + Head(chunk), Tail(chunk))

\* sha256.hexdigest().
HexDigest(h) == h

Min(a, b) == IF a < b THEN a ELSE b


\* ReadChunk gone wrong: a read that returns whole chunks only, the shorter
\* tail of the file is read as the end of the file.
ReadChunk_FullOnly(content, p) ==
    IF p + ChunkSize <= Len(content)
    THEN SubSeq(content, p + 1, p + ChunkSize)
    ELSE <<>>

\* f.read(4096) at offset p of a file holding content.
ReadChunk(content, p) == SubSeq(content, p + 1, Min(p + ChunkSize, Len(content)))

RECURSIVE HashFrom(_, _, _)
\* The loop of hash_file from offset p with digest state h, run to its end.
HashFrom(content, p, h) ==
    LET chunk == ReadChunk(content, p)
    IN  IF chunk = <<>> THEN HexDigest(h)
        ELSE HashFrom(content, p + Len(chunk), Sha256Update(h, chunk))

\* hash_file on a readable file holding content.
hash_file(content) == HashFrom(content, 0, Sha256New)

----------------------------------------------------------------------------
(* The file systems a run can start from.                                   *)

IsPresent(f) == f.kind # "absent"

Compact(s) == SelectSeq(s, IsPresent)

\* A regular file. An unreadable file raises in hash_file, at open or at a
\* read; what it holds is never seen, so one content stands for all.
FileChoices ==
    [kind : {"file"}, content : Contents, readable : {TRUE}]
    \cup {[kind |-> "file", content |-> <<>>, readable |-> FALSE]}

\* folder1 holds at most a file "a" and a file "b" in its subfolder "sub";
\* os.walk is top-down, so "a" is yielded before "sub/b".
RefSlot(path) ==
    {NoFile} \cup {[kind |-> f.kind, path |-> path, content |-> f.content,
                    readable |-> f.readable] : f \in FileChoices}

RefTrees ==
    {Compact(<<x, y>>) : x \in RefSlot(<<"a">>), y \in RefSlot(<<"sub", "b">>)}

\* folder2 holds at most an entry "a" and an entry "c", each a regular file
\* or a subfolder (which holds a file "inner" of content <<1>>).
CandSlot(name, mtime) ==
    {NoFile}
    \cup {[kind |-> "file", name |-> name, content |-> f.content,
           readable |-> f.readable, mtime |-> mtime] : f \in FileChoices}
    \cup {[kind |-> "dir", name |-> name, content |-> <<1>>,
           readable |-> TRUE, mtime |-> mtime]}

\* os.listdir returns the entries in arbitrary order.
CandDirs ==
    {Compact(<<x, y>>) : x \in CandSlot("a", "t_a"), y \in CandSlot("c", "t_c")}
    \cup {Compact(<<y, x>>) : x \in CandSlot("a", "t_a"), y \in CandSlot("c", "t_c")}

\* The names a file of output_folder can have.
OutNames == {"a", "c", "z"}

NoOutFiles == [n \in OutNames |-> NoFile]

\* An output folder that exists holds an older "a" and an older "z".
PreFiles ==
    [n \in OutNames |->
        IF n = "c" THEN NoFile
        ELSE [kind |-> "file", content |-> <<1>>, mtime |-> "old"]]

\* The script before its first statement.
Started ==
    /\ pc = "start"
    /\ i = 0
    /\ j = 0
    /\ linkSeen = FALSE
    /\ chunks = <<>>
    /\ folder1_hashes = <<>>
    /\ duplicates = <<>>
    /\ unique_count = 0
    /\ handles = {}
    /\ pos = 0
    /\ sha256 = Sha256New
    /\ stdout = <<>>
    /\ exitCode = -1
    /\ error = "none"
    /\ created = FALSE
    /\ hashed = <<>>
    /\ copied = <<>>
    /\ runNo = 1
    /\ prev = NoRun

Init ==
    /\ refKind \in {"dir", "missing", "notdir"}
    /\ refFiles \in (IF refKind = "dir" THEN RefTrees ELSE {<<>>})
    /\ refLink \in (IF refKind = "dir" THEN BOOLEAN ELSE {FALSE})
    /\ candKind \in {"dir", "missing", "notdir"}
    /\ candEntries \in (IF candKind = "dir" THEN CandDirs ELSE {<<>>})
    /\ outKind \in {"absent", "notdir", "dir", "dir_ro"}
    /\ outFiles = (IF outKind \in {"dir", "dir_ro"} THEN PreFiles ELSE NoOutFiles)
    /\ Started


\* The longest file, in blocks, of the runs that follow the hashing loop.
HashMaxLen == 3

HashContents == UNION {[1..n -> Bytes] : n \in 0..HashMaxLen}

\* A regular file of up to HashMaxLen blocks. One that is not readable can
\* fail at open or at any read, after some of its blocks have been read.
HashFiles(readables) ==
    [kind : {"file"}, content : HashContents, readable : readables]

\* folder1 holds "a", "sub/b" and the link "loop"; folder2 holds a subfolder
\* "a" and a file "c"; the output folder exists.
InitHash ==
    /\ refKind = "dir"
    /\ refFiles \in
           {<<[kind |-> "file", path |-> <<"a">>, content |-> x.content,
               readable |-> x.readable],
              [kind |-> "file", path |-> <<"sub", "b">>, content |-> y.content,
               readable |-> y.readable]>> :
                x \in HashFiles({TRUE}), y \in HashFiles(BOOLEAN)}
    /\ refLink = TRUE
    /\ candKind = "dir"
    /\ candEntries \in
           {<<[kind |-> "dir", name |-> "a", content |-> <<1>>,
               readable |-> TRUE, mtime |-> "t_a"],
              [kind |-> "file", name |-> "c", content |-> z.content,
               readable |-> z.readable, mtime |-> "t_c"]>> :
                z \in HashFiles(BOOLEAN)}
    /\ outKind = "dir"
    /\ outFiles = PreFiles
    /\ Started

----------------------------------------------------------------------------
(* The script.                                                              *)

Running == pc \notin {"done", "crashed"}

\* An uncaught exception: the interpreter prints the traceback and exits 1.
Crash(exc) ==
    /\ pc' = "crashed"
    /\ exitCode' = 1
    /\ error' = exc

\* IsFile gone wrong: the isfile test left out.
IsFile_NoTest(e) == TRUE

\* IsFile gone wrong: os.path.exists in the place of os.path.isfile.
IsFile_Exists(e) == e.kind \in {"file", "dir"}

\* os.path.isfile(full_path).
IsFile(e) == e.kind = "file"

\* IndexInsert gone wrong: the dictionary is rebound to the one new entry.
IndexInsert_Rebind(index, digest, path) == [d \in {digest} |-> path]

\* IndexInsert gone wrong: setdefault, the entry a digest has is kept.
IndexInsert_KeepFirst(index, digest, path) ==
    [d \in DOMAIN index \cup {digest} |->
        IF d \in DOMAIN index THEN index[d] ELSE path]

\* IndexInsert gone wrong: of two paths of one digest the shorter is kept.
IndexInsert_ShortestPath(index, digest, path) ==
    [d \in DOMAIN index \cup {digest} |->
        IF d # digest THEN index[d]
        ELSE IF d \in DOMAIN index /\ Len(index[d]) <= Len(path) THEN index[d]
        ELSE path]

\* folder1_hashes[file_hash] = full_path.
IndexInsert(index, digest, path) ==
    [d \in DOMAIN index \cup {digest} |-> IF d = digest THEN path ELSE index[d]]

\* InIndex gone wrong: the test inverted.
InIndex_Inverted(index, digest) == digest \notin DOMAIN index

\* file_hash in folder1_hashes.
InIndex(index, digest) == digest \in DOMAIN index

\* Copy2 gone wrong: a name that is taken is not overwritten, the copy goes
\* to a name that is free.
Copy2_Rename(files, e) ==
    LET free == {n \in DOMAIN files : files[n].kind = "absent"}
        to == IF files[e.name].kind = "file" /\ free # {}
              THEN CHOOSE n \in free : TRUE
              ELSE e.name
    IN  [files EXCEPT ![to] =
            [kind |-> "file", content |-> e.content, mtime |-> e.mtime]]

\* Copy2 gone wrong: shutil.copy, which does not keep the timestamps.
Copy2_NoStat(files, e) ==
    [files EXCEPT ![e.name] =
        [kind |-> "file", content |-> e.content, mtime |-> "now"]]

\* Copy2 gone wrong: the file is opened for appending.
Copy2_Append(files, e) ==
    [files EXCEPT ![e.name] =
        [kind |-> "file",
         content |-> (IF @.kind = "file" THEN @.content ELSE <<>>) \o e.content,
         mtime |-> e.mtime]]

\* shutil.copy2(full_path, os.path.join(output_folder, file)): the content
\* and the modification time of the source, under the source's name.
Copy2(files, e) ==
    [files EXCEPT ![e.name] =
        [kind |-> "file", content |-> e.content, mtime |-> e.mtime]]

\* CountUnique gone wrong: the increment left out.
CountUnique_Forgotten(n) == n

\* unique_count += 1.
CountUnique(n) == n + 1

\* os.path.join(root, file) and os.path.join(folder2, file), below the root.
PathOf(tag, f) == IF tag = "ref" THEN f.path ELSE <<f.name>>

\* The end of the with block of hash_file: the file is closed.
Close(open, tag, f) == open \ {<<tag, PathOf(tag, f)>>}

\* The file hash_file is working on.
CurrentFile == IF pc = "hash_ref" THEN refFiles[i + 1] ELSE candEntries[j + 1]

\* MakeDirs gone wrong: os.makedirs(output_folder), without exist_ok.
MakeDirs_NoExistOk ==
    /\ pc = "start"
    /\ IF outKind # "absent"
       THEN /\ Crash("FileExistsError")
            /\ UNCHANGED <<outKind, created>>
       ELSE /\ outKind' = "dir"
            /\ created' = TRUE
            /\ pc' = "walk"
            /\ UNCHANGED <<exitCode, error>>
    /\ UNCHANGED <<fsIn, earlier, linkSeen, chunks, outFiles, i, j,
                   folder1_hashes, duplicates, unique_count, handles, pos,
                   sha256, stdout, hashed, copied>>

\* Lines 6-11 and 22: the inputs, os.makedirs(output_folder, exist_ok=True).
MakeDirs ==
    /\ pc = "start"
    /\ IF outKind = "notdir"
       THEN /\ Crash("FileExistsError")
            /\ UNCHANGED <<outKind, created>>
       ELSE /\ outKind' = (IF outKind = "absent" THEN "dir" ELSE outKind)
            /\ created' = (outKind = "absent")
            /\ pc' = "walk"
            /\ UNCHANGED <<exitCode, error>>
    /\ UNCHANGED <<fsIn, earlier, linkSeen, chunks, outFiles, i, j,
                   folder1_hashes, duplicates, unique_count, handles, pos,
                   sha256, stdout, hashed, copied>>


\* Open gone wrong: one sha256 object is shared by all the calls of
\* hash_file, each file is absorbed on top of those hashed before it.
Open_SharedDigest(tag, f, next) ==
    /\ \/ /\ handles' = handles \cup {<<tag, PathOf(tag, f)>>}
          /\ pos' = 0
          /\ sha256' = sha256
          /\ chunks' = <<>>
          /\ pc' = next
          /\ UNCHANGED <<exitCode, error>>
       \/ /\ ~f.readable
          /\ Crash("PermissionError")
          /\ UNCHANGED <<handles, pos, sha256, chunks>>
    /\ UNCHANGED <<fsIn, earlier, linkSeen, outKind, outFiles, i, j,
                   folder1_hashes, duplicates, unique_count, stdout, created,
                   hashed, copied>>

\* Lines 15-16 of hash_file, entered from the loop at pc: open(path, "rb").
\* An unreadable file fails here or at a read.
Open(tag, f, next) ==
    /\ \/ /\ handles' = handles \cup {<<tag, PathOf(tag, f)>>}
          /\ pos' = 0
          /\ sha256' = Sha256New
          /\ chunks' = <<>>
          /\ pc' = next
          /\ UNCHANGED <<exitCode, error>>
       \/ /\ ~f.readable
          /\ Crash("PermissionError")
          /\ UNCHANGED <<handles, pos, sha256, chunks>>
    /\ UNCHANGED <<fsIn, earlier, linkSeen, outKind, outFiles, i, j,
                   folder1_hashes, duplicates, unique_count, stdout, created,
                   hashed, copied>>

\* OpenRef gone wrong: os.listdir in the place of os.walk, the files of the
\* subfolders of folder1 are passed over.
OpenRef_TopOnly ==
    /\ pc = "walk"
    /\ refKind = "dir"
    /\ i < Len(refFiles)
    /\ IF Len(refFiles[i + 1].path) = 1
       THEN Open("ref", refFiles[i + 1], "hash_ref")
       ELSE /\ i' = i + 1
            /\ UNCHANGED <<fsIn, earlier, linkSeen, chunks, outKind, outFiles,
                           pc, j, folder1_hashes, duplicates, unique_count,
                           handles, pos, sha256, stdout, exitCode, error,
                           created, hashed, copied>>

\* Lines 23-26: the next file of os.walk(folder1) goes to hash_file. os.walk
\* swallows the error of a top that cannot be listed and yields nothing.
OpenRef ==
    /\ pc = "walk"
    /\ refKind = "dir"
    /\ i < Len(refFiles)
    /\ Open("ref", refFiles[i + 1], "hash_ref")

\* Lines 33-36: the next entry of the listing, a regular file, goes to hash_file.
OpenCand ==
    /\ pc = "scan"
    /\ j < Len(candEntries)
    /\ IsFile(candEntries[j + 1])
    /\ Open("cand", candEntries[j + 1], "hash_cand")

\* Lines 33-35: an entry that is no regular file is passed over.
SkipEntry ==
    /\ pc = "scan"
    /\ j < Len(candEntries)
    /\ ~IsFile(candEntries[j + 1])
    /\ j' = j + 1
    /\ UNCHANGED <<fsIn, earlier, linkSeen, chunks, outKind, outFiles, pc, i,
                   folder1_hashes, duplicates, unique_count, handles, pos,
                   sha256, stdout, exitCode, error, created, hashed, copied>>

\* Lines 17-18: a read that returns a chunk, and sha256.update(chunk).
HashRead ==
    /\ pc \in {"hash_ref", "hash_cand"}
    /\ LET chunk == ReadChunk(CurrentFile.content, pos)
       IN  /\ chunk # <<>>
           /\ sha256' = Sha256Update(sha256, chunk)
           /\ pos' = pos + Len(chunk)
           /\ chunks' = Append(chunks, chunk)
    /\ UNCHANGED <<fsIn, earlier, linkSeen, outKind, outFiles, pc, i, j,
                   folder1_hashes, duplicates, unique_count, handles, stdout,
                   exitCode, error, created, hashed, copied>>


\* HashReadFail gone wrong: the file is opened without the with statement,
\* the exception leaves hash_file with the file still open.
HashReadFail_Leak ==
    /\ pc \in {"hash_ref", "hash_cand"}
    /\ ~CurrentFile.readable
    /\ Crash("OSError")
    /\ UNCHANGED <<fsIn, earlier, linkSeen, chunks, outKind, outFiles, i, j,
                   folder1_hashes, duplicates, unique_count, handles, pos,
                   sha256, stdout, created, hashed, copied>>

\* Line 17: a read that raises; the with statement closes the file.
HashReadFail ==
    /\ pc \in {"hash_ref", "hash_cand"}
    /\ ~CurrentFile.readable
    /\ handles' = Close(handles, IF pc = "hash_ref" THEN "ref" ELSE "cand",
                        CurrentFile)
    /\ Crash("OSError")
    /\ UNCHANGED <<fsIn, earlier, linkSeen, chunks, outKind, outFiles, i, j,
                   folder1_hashes, duplicates, unique_count, pos, sha256,
                   stdout, created, hashed, copied>>

\* The read of line 17 returns b"": the loop ends, the file is closed.
AtEof ==
    /\ CurrentFile.readable
    /\ ReadChunk(CurrentFile.content, pos) = <<>>


\* ReturnRef gone wrong: hash_file returns the digest and leaves the file
\* open.
ReturnRef_NoClose ==
    /\ pc = "hash_ref"
    /\ AtEof
    /\ folder1_hashes' =
           IndexInsert(folder1_hashes, HexDigest(sha256), refFiles[i + 1].path)
    /\ hashed' = Append(hashed, <<"ref", PathOf("ref", refFiles[i + 1])>>)
    /\ i' = i + 1
    /\ pc' = "walk"
    /\ UNCHANGED <<fsIn, earlier, linkSeen, chunks, outKind, outFiles, j,
                   duplicates, unique_count, pos, sha256, stdout, exitCode,
                   error, created, copied, handles>>

\* Lines 17-19 and 27: hash_file returns, the digest enters the dictionary.
ReturnRef ==
    /\ pc = "hash_ref"
    /\ AtEof
    /\ handles' = Close(handles, "ref", refFiles[i + 1])
    /\ folder1_hashes' =
           IndexInsert(folder1_hashes, HexDigest(sha256), refFiles[i + 1].path)
    /\ hashed' = Append(hashed, <<"ref", PathOf("ref", refFiles[i + 1])>>)
    /\ i' = i + 1
    /\ pc' = "walk"
    /\ UNCHANGED <<fsIn, earlier, linkSeen, chunks, outKind, outFiles, j,
                   duplicates, unique_count, pos, sha256, stdout, exitCode,
                   error, created, copied>>


\* ReturnCand gone wrong: the digest of a copied file is put in the
\* dictionary, a later candidate of the same content counts as a duplicate.
ReturnCand_Indexes ==
    /\ pc = "hash_cand"
    /\ AtEof
    /\ handles' = Close(handles, "cand", candEntries[j + 1])
    /\ hashed' = Append(hashed, <<"cand", PathOf("cand", candEntries[j + 1])>>)
    /\ LET e == candEntries[j + 1]
       IN  IF InIndex(folder1_hashes, HexDigest(sha256))
           THEN /\ duplicates' = Append(duplicates, e.name)
                /\ j' = j + 1
                /\ pc' = "scan"
                /\ UNCHANGED <<outFiles, unique_count, copied, exitCode, error,
                               folder1_hashes>>
           ELSE IF outKind = "dir_ro"
           THEN /\ Crash("PermissionError")
                /\ UNCHANGED <<outFiles, unique_count, copied, duplicates, j,
                               folder1_hashes>>
           ELSE /\ outFiles' = Copy2(outFiles, e)
                /\ copied' = Append(copied, e.name)
                /\ unique_count' = CountUnique(unique_count)
                /\ folder1_hashes' =
                       IndexInsert(folder1_hashes, HexDigest(sha256), <<e.name>>)
                /\ j' = j + 1
                /\ pc' = "scan"
                /\ UNCHANGED <<duplicates, exitCode, error>>
    /\ UNCHANGED <<fsIn, earlier, linkSeen, chunks, outKind, i, pos, sha256,
                   stdout, created>>


\* ReturnCand gone wrong: shutil.move in the place of shutil.copy2, the
\* unique file leaves folder2.
ReturnCand_Move ==
    /\ pc = "hash_cand"
    /\ AtEof
    /\ handles' = Close(handles, "cand", candEntries[j + 1])
    /\ hashed' = Append(hashed, <<"cand", PathOf("cand", candEntries[j + 1])>>)
    /\ LET e == candEntries[j + 1]
       IN  IF InIndex(folder1_hashes, HexDigest(sha256))
           THEN /\ duplicates' = Append(duplicates, e.name)
                /\ j' = j + 1
                /\ pc' = "scan"
                /\ UNCHANGED <<outFiles, unique_count, copied, exitCode, error,
                               candEntries>>
           ELSE IF outKind = "dir_ro"
           THEN /\ Crash("PermissionError")
                /\ UNCHANGED <<outFiles, unique_count, copied, duplicates, j,
                               candEntries>>
           ELSE /\ outFiles' = Copy2(outFiles, e)
                /\ candEntries' = [candEntries EXCEPT ![j + 1] = NoFile]
                /\ copied' = Append(copied, e.name)
                /\ unique_count' = CountUnique(unique_count)
                /\ j' = j + 1
                /\ pc' = "scan"
                /\ UNCHANGED <<duplicates, exitCode, error>>
    /\ UNCHANGED <<refKind, refFiles, refLink, candKind, earlier, linkSeen,
                   chunks, outKind, i, folder1_hashes, pos, sha256, stdout,
                   created>>

\* Lines 17-19 and 37-42: hash_file returns, the file is classified.
ReturnCand ==
    /\ pc = "hash_cand"
    /\ AtEof
    /\ handles' = Close(handles, "cand", candEntries[j + 1])
    /\ hashed' = Append(hashed, <<"cand", PathOf("cand", candEntries[j + 1])>>)
    /\ LET e == candEntries[j + 1]
       IN  IF InIndex(folder1_hashes, HexDigest(sha256))
           THEN /\ duplicates' = Append(duplicates, e.name)
                /\ j' = j + 1
                /\ pc' = "scan"
                /\ UNCHANGED <<outFiles, unique_count, copied, exitCode, error>>
           ELSE IF outKind = "dir_ro"
           THEN /\ Crash("PermissionError")
                /\ UNCHANGED <<outFiles, unique_count, copied, duplicates, j>>
           ELSE /\ outFiles' = Copy2(outFiles, e)
                /\ copied' = Append(copied, e.name)
                /\ unique_count' = CountUnique(unique_count)
                /\ j' = j + 1
                /\ pc' = "scan"
                /\ UNCHANGED <<duplicates, exitCode, error>>
    /\ UNCHANGED <<fsIn, earlier, linkSeen, chunks, outKind, i,
                   folder1_hashes, pos, sha256, stdout, created>>


\* SkipLink gone wrong: os.walk(folder1, followlinks=True) walks into the
\* link, which leads to folder1: the files of folder1 come again, and the
\* link after them.
SkipLink_Follow ==
    /\ pc = "walk"
    /\ refKind = "dir"
    /\ refLink
    /\ ~linkSeen
    /\ i = Len(refFiles)
    /\ i' = 0
    /\ UNCHANGED <<fsIn, earlier, linkSeen, chunks, outKind, outFiles, pc, j,
                   folder1_hashes, duplicates, unique_count, handles, pos,
                   sha256, stdout, exitCode, error, created, hashed, copied>>

\* Line 23: os.walk(folder1) finds the symbolic link "loop" among the
\* subfolders of folder1; followlinks is False, so it does not walk into it.
SkipLink ==
    /\ pc = "walk"
    /\ refKind = "dir"
    /\ refLink
    /\ ~linkSeen
    /\ linkSeen' = TRUE
    /\ UNCHANGED <<fsIn, earlier, chunks, outKind, outFiles, pc, i, j,
                   folder1_hashes, duplicates, unique_count, handles, pos,
                   sha256, stdout, exitCode, error, created, hashed, copied>>


\* ListDir gone wrong: folder2 is listed while the walk of folder1 still
\* has files to yield.
ListDir_Early ==
    /\ pc = "walk"
    /\ IF candKind = "dir"
       THEN pc' = "scan" /\ UNCHANGED <<exitCode, error>>
       ELSE Crash(IF candKind = "missing" THEN "FileNotFoundError"
                  ELSE "NotADirectoryError")
    /\ UNCHANGED <<fsIn, earlier, linkSeen, chunks, outKind, outFiles, i, j,
                   folder1_hashes, duplicates, unique_count, handles, pos,
                   sha256, stdout, created, hashed, copied>>

\* Lines 23 and 30-33: the walk is over; os.listdir(folder2).
ListDir ==
    /\ pc = "walk"
    /\ refKind # "dir" \/ (i = Len(refFiles) /\ (refLink => linkSeen))
    /\ IF candKind = "dir"
       THEN pc' = "scan" /\ UNCHANGED <<exitCode, error>>
       ELSE Crash(IF candKind = "missing" THEN "FileNotFoundError"
                  ELSE "NotADirectoryError")
    /\ UNCHANGED <<fsIn, earlier, linkSeen, chunks, outKind, outFiles, i, j,
                   folder1_hashes, duplicates, unique_count, handles, pos,
                   sha256, stdout, created, hashed, copied>>


\* Report gone wrong: the test of line 45 is dropped, the heading of the
\* listing is printed also when there is nothing to list.
Report_HeaderAlways(dups, count) ==
    <<[line |-> "duplicates_found"]>>
    \o [k \in 1..Len(dups) |-> [line |-> "duplicate", name |-> dups[k]]]
    \o (IF dups = <<>> THEN <<[line |-> "no_duplicates"]>> ELSE <<>>)
    \o <<[line |-> "copied_to"], [line |-> "total", count |-> count]>>

\* Report gone wrong: the duplicates are printed last to first.
Report_Reversed(dups, count) ==
    (IF dups # <<>>
     THEN <<[line |-> "duplicates_found"]>>
          \o [k \in 1..Len(dups) |->
                 [line |-> "duplicate", name |-> dups[Len(dups) + 1 - k]]]
     ELSE <<[line |-> "no_duplicates"]>>)
    \o <<[line |-> "copied_to"], [line |-> "total", count |-> count]>>

\* The lines of Step 3.
Report(dups, count) ==
    (IF dups # <<>>
     THEN <<[line |-> "duplicates_found"]>>
          \o [k \in 1..Len(dups) |-> [line |-> "duplicate", name |-> dups[k]]]
     ELSE <<[line |-> "no_duplicates"]>>)
    \o <<[line |-> "copied_to"], [line |-> "total", count |-> count]>>

\* Lines 44-53: the results and the summary; the script ends.
PrintResults ==
    /\ pc = "scan"
    /\ j = Len(candEntries)
    /\ stdout' = Report(duplicates, unique_count)
    /\ pc' = "done"
    /\ exitCode' = 0
    /\ UNCHANGED <<fsIn, earlier, linkSeen, chunks, outKind, outFiles, i, j,
                   folder1_hashes, duplicates, unique_count, handles, pos,
                   sha256, error, created, hashed, copied>>

Next ==
    \/ MakeDirs
    \/ OpenRef
    \/ HashRead
    \/ HashReadFail
    \/ ReturnRef
    \/ SkipLink
    \/ ListDir
    \/ OpenCand
    \/ SkipEntry
    \/ ReturnCand
    \/ PrintResults

Spec == Init /\ [][Next]_vars

\* The script is started again with the same three paths, after a run that
\* ended or raised. What the process held is gone, the folders are as they
\* were left.
Rerun ==
    /\ ~Running
    /\ runNo < MaxRuns
    /\ runNo' = runNo + 1
    /\ prev' = [pc |-> pc, duplicates |-> duplicates,
                unique_count |-> unique_count, outFiles |-> outFiles,
                stdout |-> stdout, exitCode |-> exitCode]
    /\ pc' = "start"
    /\ i' = 0
    /\ j' = 0
    /\ linkSeen' = FALSE
    /\ chunks' = <<>>
    /\ folder1_hashes' = <<>>
    /\ duplicates' = <<>>
    /\ unique_count' = 0
    /\ handles' = {}
    /\ pos' = 0
    /\ sha256' = Sha256New
    /\ stdout' = <<>>
    /\ exitCode' = -1
    /\ error' = "none"
    /\ created' = FALSE
    /\ hashed' = <<>>
    /\ copied' = <<>>
    /\ UNCHANGED <<fsIn, outKind, outFiles>>


\* Runs on files of several chunks.
SpecHash == InitHash /\ [][Next]_vars


\* The interpreter runs the script on: a statement that can run does run.
SpecLive == Spec /\ WF_vars(Next)

NextAgain == Next \/ Rerun

\* Runs of the script one after the other on the same folders.
SpecTwice == Init /\ [][NextAgain]_vars

----------------------------------------------------------------------------
(* What the properties speak of.                                            *)

Range(s) == {s[k] : k \in DOMAIN s}

\* The regular files that are direct children of folder2.
RegularCands == {e \in Range(candEntries) : e.kind = "file"}

\* The contents of the files under folder1.
RefContents == {f.content : f \in Range(refFiles)}

\* The files output_folder held before the run.
OutFilesBefore ==
    IF runNo > 1 THEN prev.outFiles
    ELSE IF outKind \in {"dir", "dir_ro"} /\ ~created THEN PreFiles
    ELSE NoOutFiles

AllReadable ==
    /\ \A f \in Range(refFiles) : f.readable
    /\ \A e \in Range(candEntries) : e.readable

\* Step 2 ran to its end.
Classified == pc = "done"

----------------------------------------------------------------------------
(* C1: Completeness. When Classify has ended, every regular file directly  *)
(* under folder2 is in exactly one of the duplicate report and the copied  *)
(* files, and len(duplicates) + unique_count is the number of those files. *)
C1_Completeness ==
    Classified =>
        /\ Len(duplicates) + unique_count = Cardinality(RegularCands)
        /\ \A e \in RegularCands :
               (e.name \in Range(duplicates)) # (e.name \in Range(copied))

\* A finished run over a folder2 that holds a duplicate and a unique file.
C1_Witness ==
    /\ Classified
    /\ Cardinality(RegularCands) = 2
    /\ Len(duplicates) = 1
    /\ unique_count = 1

(* C2: Content equality. When Classify has ended, every regular file of     *)
(* folder2 whose content is that of a file anywhere under folder1 is in the *)
(* duplicate report, whatever the names.                                    *)
C2_ContentEquality ==
    Classified =>
        \A f \in Range(refFiles) : \A e \in RegularCands :
            e.content = f.content => e.name \in Range(duplicates)

\* folder2/c holds what folder1/sub/b holds, and folder1/a holds something else.
C2_Witness ==
    /\ Classified
    /\ \E f \in Range(refFiles) : \E g \in Range(refFiles) : \E e \in RegularCands :
           /\ f.path = <<"sub", "b">>
           /\ g.path = <<"a">>
           /\ g.content # f.content
           /\ e.name = "c"
           /\ e.content = f.content
           /\ duplicates = <<"c">>

(* C3: Name irrelevance. When Classify has ended, a regular file of folder2 *)
(* is a duplicate exactly if its content is held by some file of folder1    *)
(* and copied as unique exactly if not, also when a file of folder1 has its *)
(* name; it is unique only if its digest is no key of the index.            *)
C3_NameIrrelevance ==
    Classified =>
        \A e \in RegularCands :
            /\ e.name \in Range(duplicates) <=> e.content \in RefContents
            /\ e.name \in Range(copied) <=> e.content \notin RefContents
            /\ e.name \in Range(copied) =>
                   hash_file(e.content) \notin DOMAIN folder1_hashes

\* folder2/a and folder1/a have the same name and the same size but other
\* bytes, and folder2/a was copied as unique.
C3_Witness ==
    /\ Classified
    /\ \E f \in Range(refFiles) : \E e \in RegularCands :
           /\ f.path = <<"a">>
           /\ e.name = "a"
           /\ Len(e.content) = Len(f.content)
           /\ e.content # f.content
           /\ "a" \in Range(copied)

(* C4: Partial-failure tolerance of BuildIndex. A run that got past the     *)
(* creation of the output folder ends with every readable file of folder1   *)
(* in the index, also when another file of folder1 could not be read.       *)
C4_IndexTolerance ==
    (~Running /\ refKind = "dir" /\ error # "FileExistsError") =>
        \A f \in Range(refFiles) :
            f.readable => hash_file(f.content) \in DOMAIN folder1_hashes

(* C5: With valid roots, a readable folder1 and a writable output folder, a *)
(* run ends with exit status 0 and the results printed, every readable      *)
(* regular file of folder2 classified, also when a file of folder2 could    *)
(* not be read.                                                             *)
C5_CandidateTolerance ==
    (/\ ~Running
     /\ refKind = "dir"
     /\ candKind = "dir"
     /\ outKind = "dir"
     /\ \A f \in Range(refFiles) : f.readable) =>
        /\ exitCode = 0
        /\ stdout # <<>>
        /\ \A e \in RegularCands :
               e.readable => e.name \in Range(duplicates) \cup Range(copied)

(* C6: BuildIndex on a reference root that is missing or no directory fails *)
(* with InvalidPath: the run never goes on to classify with an empty index. *)
C6_InvalidReferenceRoot ==
    refKind # "dir" => pc \notin {"scan", "hash_cand", "done"}

(* C7: With an invalid reference or candidate root, no file is ever hashed, *)
(* the output folder is neither created nor written, nothing is printed,    *)
(* and the run ends in the error state.                                     *)
C7_RootErrorAborts ==
    (refKind # "dir" \/ candKind # "dir") =>
        /\ hashed = <<>>
        /\ handles = {}
        /\ ~created
        /\ copied = <<>>
        /\ stdout = <<>>
        /\ pc # "done"

(* C8: A copy that fails is not fatal: with valid roots and every file      *)
(* readable, a run ends with the summary printed and every regular file of  *)
(* folder2 classified, also when the output folder cannot be written.       *)
C8_CopyErrorNotFatal ==
    (/\ ~Running
     /\ refKind = "dir"
     /\ candKind = "dir"
     /\ outKind \in {"dir", "dir_ro"}
     /\ AllReadable) =>
        /\ pc = "done"
        /\ stdout # <<>>
        /\ Len(hashed) = Len(refFiles) + Cardinality(RegularCands)

(* C9: unique_count is at every moment the number of files copied into the  *)
(* output folder by this run, each a regular file of folder2 that is no     *)
(* duplicate, copied once; the summary prints that number.                  *)
C9_UniqueCount ==
    /\ unique_count = Len(copied)
    /\ \A k \in DOMAIN copied :
           /\ \E e \in RegularCands : e.name = copied[k]
           /\ copied[k] \notin Range(duplicates)
           /\ \A m \in DOMAIN copied : copied[m] = copied[k] => m = k
           /\ outFiles[copied[k]].kind = "file"
    /\ pc = "done" =>
           stdout[Len(stdout)] = [line |-> "total", count |-> Len(copied)]

\* A finished run that copied both entries of folder2.
C9_Witness ==
    /\ pc = "done"
    /\ Len(copied) = 2
    /\ unique_count = 2

(* C10: A candidate whose digest is a key of the index is reported and      *)
(* never copied, any other is copied under its own name: after the run the  *)
(* files of the output folder that it wrote are those of the unique         *)
(* candidates, with their contents, and all others are as they were.        *)
C10_CopiesAreUniques ==
    /\ \A e \in RegularCands :
           /\ e.name \in Range(duplicates) =>
                  hash_file(e.content) \in DOMAIN folder1_hashes
           /\ e.name \in Range(copied) =>
                  /\ hash_file(e.content) \notin DOMAIN folder1_hashes
                  /\ outFiles[e.name].kind = "file"
                  /\ outFiles[e.name].content = e.content
    /\ \A n \in OutNames :
           n \notin Range(copied) => outFiles[n] = OutFilesBefore[n]
    /\ Classified =>
           \A e \in RegularCands :
               IF hash_file(e.content) \in DOMAIN folder1_hashes
               THEN e.name \in Range(duplicates) /\ e.name \notin Range(copied)
               ELSE e.name \in Range(copied) /\ e.name \notin Range(duplicates)

\* The scenario of the specification: folder1 holds two contents, folder2/c
\* holds one of them and folder2/a a third; the report is [c], only a is
\* copied, unique_count is 1.
C10_Witness ==
    /\ Classified
    /\ Cardinality(RefContents) = 2
    /\ Len(candEntries) = 2
    /\ duplicates = <<"c">>
    /\ copied = <<"a">>
    /\ unique_count = 1
    /\ outFiles["c"].kind = "absent"

(* C11: Idempotence. A run that ends after an earlier run that ended, on    *)
(* the same folder1 and folder2, leaves in the output folder the files the  *)
(* earlier run left (same names, same contents) and reports the same        *)
(* duplicates and the same unique_count.                                    *)
C11_Idempotence ==
    (pc = "done" /\ runNo > 1 /\ prev.pc = "done") =>
        /\ \A n \in OutNames :
               /\ outFiles[n].kind = prev.outFiles[n].kind
               /\ outFiles[n].kind = "file" =>
                      outFiles[n].content = prev.outFiles[n].content
        /\ duplicates = prev.duplicates
        /\ unique_count = prev.unique_count
        /\ stdout = prev.stdout

\* A second run has ended that, like the first, reported a duplicate and
\* copied a unique file of one block over the file the first run wrote.
C11_Witness ==
    /\ pc = "done"
    /\ runNo = 2
    /\ prev.pc = "done"
    /\ Len(duplicates) = 1
    /\ Len(copied) = 1
    /\ \E e \in RegularCands : e.name = copied[1] /\ Len(e.content) = 1

\* The regular file of folder2 with this name.
CandNamed(n) == CHOOSE e \in RegularCands : e.name = n

(* C12: Collision policy. A unique candidate whose name a file of the       *)
(* output folder already has is copied over that file: the file then holds  *)
(* the candidate's content, no file of another name appears or changes,     *)
(* and the candidate is counted.                                            *)
C12_Overwrite ==
    /\ \A k \in DOMAIN copied :
           OutFilesBefore[copied[k]].kind = "file" =>
               /\ outFiles[copied[k]].kind = "file"
               /\ outFiles[copied[k]].content = CandNamed(copied[k]).content
               /\ unique_count >= k
    /\ \A n \in OutNames \ Range(copied) : outFiles[n] = OutFilesBefore[n]

\* A unique folder2/a of other content was copied over the older a.
C12_Witness ==
    /\ pc = "done"
    /\ "a" \in Range(copied)
    /\ OutFilesBefore["a"].kind = "file"
    /\ OutFilesBefore["a"].content # outFiles["a"].content
    /\ unique_count = 1

(* C13: After a run that ended, the output folder holds for every unique    *)
(* candidate a file of its name with the candidate's bytes and the          *)
(* candidate's modification time.                                           *)
C13_CopyKeepsBytesAndTime ==
    pc = "done" =>
        \A e \in RegularCands :
            e.content \notin RefContents =>
                /\ outFiles[e.name].kind = "file"
                /\ outFiles[e.name].content = e.content
                /\ outFiles[e.name].mtime = e.mtime

\* Two unique candidates were copied, one of them over an older file.
C13_Witness ==
    /\ pc = "done"
    /\ Len(copied) = 2
    /\ OutFilesBefore["a"].kind = "file"
    /\ OutFilesBefore["a"].mtime = "old"
    /\ outFiles["a"].mtime = "t_a"
    /\ outFiles["c"].mtime = "t_c"

\* The paths of a subfolder of folder2 and of the file inside it.
InsideSubfolder(e) == {<<e.name>>, <<e.name, "inner">>}

(* C14: Classify is not recursive. Only regular files that are direct       *)
(* children of folder2 are opened, hashed, reported, copied or counted: a   *)
(* subfolder of folder2 and the file inside it never are.                   *)
C14_NonRecursive ==
    /\ \A h \in Range(hashed) \cup handles :
           h[1] = "cand" => \E e \in RegularCands : h[2] = <<e.name>>
    /\ \A e \in Range(candEntries) :
           e.kind = "dir" =>
               /\ \A p \in InsideSubfolder(e) :
                      <<"cand", p>> \notin Range(hashed) \cup handles
               /\ {e.name, "inner"} \cap (Range(duplicates) \cup Range(copied)) = {}
               /\ outFiles[e.name] = OutFilesBefore[e.name]
    /\ Len(duplicates) + unique_count <= Cardinality(RegularCands)
    /\ pc = "done" => Len(duplicates) + unique_count = Cardinality(RegularCands)

\* A run has ended on a folder2 that holds a subfolder, listed first, and a
\* regular file, which was classified.
C14_Witness ==
    /\ pc = "done"
    /\ Len(candEntries) = 2
    /\ candEntries[1].kind = "dir"
    /\ candEntries[2].kind = "file"
    /\ Len(hashed) = Len(refFiles) + 1
    /\ Len(duplicates) + unique_count = 1

\* The digests of the first n files os.walk yields.
RefDigests(n) == {hash_file(refFiles[k].content) : k \in 1..n}

\* The walk of folder1 has ended.
Indexed == pc \in {"scan", "hash_cand", "done"}

(* C15: BuildIndex is recursive and exhaustive. No file is hashed twice;    *)
(* the keys of the index are at every moment the digests of the files of    *)
(* folder1 hashed so far, each with the path of a file of that digest; and  *)
(* when the scan has ended every file under folder1, at any depth, has been *)
(* hashed and the index has one entry for each distinct content.            *)
C15_IndexExhaustive ==
    /\ \A k \in DOMAIN hashed : \A m \in DOMAIN hashed :
           hashed[k] = hashed[m] => k = m
    /\ DOMAIN folder1_hashes = RefDigests(i)
    /\ \A d \in DOMAIN folder1_hashes :
           \E k \in 1..i : /\ refFiles[k].path = folder1_hashes[d]
                           /\ hash_file(refFiles[k].content) = d
    /\ Indexed =>
           /\ i = Len(refFiles)
           /\ \A f \in Range(refFiles) : <<"ref", f.path>> \in Range(hashed)
           /\ DOMAIN folder1_hashes = RefDigests(Len(refFiles))
           /\ Cardinality(DOMAIN folder1_hashes) = Cardinality(RefContents)

\* The scan has ended on a folder1 with a file at the top and a file in the
\* subfolder, of different contents: the index has two entries.
C15_Witness ==
    /\ Indexed
    /\ Len(refFiles) = 2
    /\ refFiles[2].path = <<"sub", "b">>
    /\ Cardinality(DOMAIN folder1_hashes) = 2

\* The places in the walk, among the first n, of the files of digest d.
PlacesOf(d, n) == {k \in 1..n : hash_file(refFiles[k].content) = d}

\* The least and the greatest member of a set of numbers.
Least(S) == CHOOSE k \in S : \A m \in S : k <= m
Greatest(S) == CHOOSE k \in S : \A m \in S : k >= m

(* C16, as stated: the index maps each digest to the first file observed    *)
(* with it; a later file of the same content does not replace the path.     *)
C16_FirstObserved ==
    \A d \in DOMAIN folder1_hashes :
        folder1_hashes[d] = refFiles[Least(PlacesOf(d, i))].path

(* C16, amended: the index maps each digest to the last file observed with  *)
(* it so far; a later file of the same content replaces the stored path.    *)
C16_LastObserved ==
    \A d \in DOMAIN folder1_hashes :
        folder1_hashes[d] = refFiles[Greatest(PlacesOf(d, i))].path

\* Two files of one content have been hashed.
C16_Witness ==
    /\ pc = "walk"
    /\ i = 2
    /\ Cardinality(DOMAIN folder1_hashes) = 1

(* C17: When folder1 holds two files of identical content, the entry of     *)
(* their digest holds, after the scan, the path of the one the walk met     *)
(* last: the later insert overwrote the entry.                              *)
C17_LastWins ==
    (/\ Indexed
     /\ Len(refFiles) = 2
     /\ refFiles[1].content = refFiles[2].content) =>
        folder1_hashes =
            [d \in {hash_file(refFiles[2].content)} |-> refFiles[2].path]

\* folder1/a and folder1/sub/b hold the same block, the run has ended and
\* reported the candidate of that content.
C17_Witness ==
    /\ pc = "done"
    /\ Len(refFiles) = 2
    /\ refFiles[1].content = refFiles[2].content
    /\ Len(refFiles[1].content) = 1
    /\ Len(duplicates) = 1
    /\ \E d \in DOMAIN folder1_hashes : folder1_hashes[d] = <<"sub", "b">>

\* The place of the entry of this name in the listing of folder2.
PlaceInListing(n) == CHOOSE k \in DOMAIN candEntries : candEntries[k].name = n

IsDuplicateLine(l) == l.line = "duplicate"

\* The names Step 3 printed as duplicates, in the order printed.
PrintedDuplicates ==
    LET ls == SelectSeq(stdout, IsDuplicateLine)
    IN  [k \in DOMAIN ls |-> ls[k].name]

(* C18: The duplicate report is in candidate-scan order: its names are      *)
(* names of the listing of folder2, in the order of the listing, none       *)
(* twice; Step 3 prints them in that order.                                 *)
C18_ScanOrder ==
    /\ \A k \in DOMAIN duplicates :
           \E m \in DOMAIN candEntries : candEntries[m].name = duplicates[k]
    /\ \A k \in DOMAIN duplicates : \A m \in DOMAIN duplicates :
           k < m => PlaceInListing(duplicates[k]) < PlaceInListing(duplicates[m])
    /\ pc = "done" => PrintedDuplicates = duplicates

\* The listing had c before a, both duplicates: the report is c, a.
C18_Witness ==
    /\ pc = "done"
    /\ duplicates = <<"c", "a">>
    /\ candEntries[1].name = "c"

(* C19: With valid roots and every file readable, a run ends with exit      *)
(* status 0 in every case, also with an empty folder2 (nothing reported,    *)
(* unique_count 0) and with an empty folder1 (every candidate copied).      *)
C19_ExitZero ==
    (/\ ~Running
     /\ refKind = "dir"
     /\ candKind = "dir"
     /\ outKind # "notdir"
     /\ AllReadable) =>
        /\ exitCode = 0
        /\ candEntries = <<>> => duplicates = <<>> /\ unique_count = 0
        /\ refFiles = <<>> => unique_count = Cardinality(RegularCands)

(* C20: The output folder is created when absent; when it exists the run    *)
(* does not fail on it and does not empty it: the files in it that no       *)
(* unique candidate overwrites stay as they were.                           *)
C20_OutputFolderKept ==
    /\ error = "FileExistsError" => outKind = "notdir"
    /\ (pc # "start" /\ error # "FileExistsError") => outKind \in {"dir", "dir_ro"}
    /\ created => outKind = "dir" /\ OutFilesBefore = NoOutFiles
    /\ \A n \in OutNames \ Range(copied) : outFiles[n] = OutFilesBefore[n]
    /\ \A n \in OutNames : OutFilesBefore[n].kind = "file" => outFiles[n].kind = "file"

\* A run has ended on an output folder that existed: it copied c, and the
\* older a and z are as they were.
C20_Witness ==
    /\ pc = "done"
    /\ ~created
    /\ copied = <<"c">>
    /\ outFiles["a"] = PreFiles["a"]
    /\ outFiles["z"] = PreFiles["z"]

\* The places of stdout that open the results: the heading of the listing or
\* the message that nothing was found.
OpeningLines ==
    {k \in DOMAIN stdout : stdout[k].line \in {"duplicates_found", "no_duplicates"}}

(* C21: A run that completed printed exactly one of the listing of           *)
(* duplicates and the message that none were found: the listing, one line    *)
(* per reported name, exactly when the report is not empty, the message      *)
(* otherwise (so also for an empty folder2); the last two lines are the      *)
(* output folder and the count of unique files.                              *)
C21_ConsoleOutput ==
    pc = "done" =>
        LET n == Len(stdout)
        IN  /\ n >= 3
            /\ Cardinality(OpeningLines) = 1
            /\ IF duplicates # <<>>
               THEN /\ stdout[1].line = "duplicates_found"
                    /\ n = Len(duplicates) + 3
                    /\ \A k \in 1..Len(duplicates) :
                           /\ stdout[k + 1].line = "duplicate"
                           /\ stdout[k + 1].name = duplicates[k]
               ELSE /\ stdout[1].line = "no_duplicates"
                    /\ n = 3
            /\ stdout[n - 1].line = "copied_to"
            /\ stdout[n].line = "total"
            /\ stdout[n].count = unique_count

\* A run on an empty folder2 completed: it printed that no duplicates were
\* found, then the summary with a count of 0.
C21_Witness ==
    /\ pc = "done"
    /\ candEntries = <<>>
    /\ stdout = <<[line |-> "no_duplicates"], [line |-> "copied_to"],
                  [line |-> "total", count |-> 0]>>

\* hash_file is at the end of the file it reads: its next step returns.
Returning == pc \in {"hash_ref", "hash_cand"} /\ AtEof

(* C22: hash_file is deterministic: the digest it returns is a function of  *)
(* the bytes of the file alone, the same whatever the path or the name,     *)
(* whichever pass calls it and whatever was hashed before. So two reference *)
(* files of the same content share one entry, and a candidate of the        *)
(* content of a reference file is found in the dictionary.                  *)
C22_Determinism ==
    /\ Returning => HexDigest(sha256) = hash_file(CurrentFile.content)
    /\ (i = 2 /\ refFiles[1].content = refFiles[2].content) =>
           Cardinality(DOMAIN folder1_hashes) = 1
    /\ (pc = "hash_cand" /\ AtEof) =>
           \A k \in DOMAIN refFiles :
               refFiles[k].content = CurrentFile.content =>
                   InIndex(folder1_hashes, HexDigest(sha256))

\* hash_file has read the three blocks of "c" to the end, after "a" and
\* "sub/b" of the same three blocks: its digest is the one entry of the
\* dictionary.
C22_Witness ==
    /\ pc = "hash_cand"
    /\ AtEof
    /\ pos = 3
    /\ refFiles[1].content = CurrentFile.content
    /\ refFiles[2].content = CurrentFile.content
    /\ DOMAIN folder1_hashes = {HexDigest(sha256)}

\* Control is inside hash_file.
InHashFile == pc \in {"hash_ref", "hash_cand"}

(* C23: Whenever control is outside hash_file, after it returned or after   *)
(* it raised (at open or at a read in the middle of the file), no file it   *)
(* opened is still open.                                                    *)
C23_HandlesReleased ==
    /\ ~InHashFile => handles = {}
    /\ error # "none" => handles = {}

\* A read of "sub/b" raised after two blocks had been read; "a" had been
\* hashed before. Nothing is open.
C23_Witness ==
    /\ pc = "crashed"
    /\ error = "OSError"
    /\ i = 1
    /\ pos = 2
    /\ chunks # <<>>
    /\ handles = {}

\* The calls of hash_file made by the walk of folder1 that returned.
RefHashed == SelectSeq(hashed, LAMBDA h : h[1] = "ref")

(* C24: Every run ends, also on a folder1 that holds a symbolic link to     *)
(* itself: it comes to the end of Step 3 with both scans done and the       *)
(* summary printed, or it stops on an uncaught exception. os.walk does not  *)
(* walk into the link: no file of folder1 is hashed a second time.          *)
C24_Terminates ==
    /\ <>(pc \in {"done", "crashed"})
    /\ [](pc = "done" =>
              /\ refKind = "dir" => i = Len(refFiles)
              /\ j = Len(candEntries)
              /\ stdout # <<>>
              /\ stdout[Len(stdout)].line = "total")
    /\ [](pc = "crashed" => error # "none" /\ exitCode = 1)
    /\ [](Len(RefHashed) <= Len(refFiles))

\* A run on a folder1 with two files and the link to itself has ended: the
\* link was met and each file was hashed once.
C24_Witness ==
    /\ pc = "done"
    /\ refLink
    /\ linkSeen
    /\ Len(refFiles) = 2
    /\ Len(RefHashed) = 2

RECURSIVE Concat(_)
\* The chunks of a sequence of chunks, joined in order.
Concat(cs) == IF cs = <<>> THEN <<>> ELSE Head(cs) \o Concat(Tail(cs))

\* The digest of a content absorbed in one update.
WholeDigest(content) == HexDigest(Sha256Update(Sha256New, content))

(* C25: hash_file streams the file: every chunk it feeds to the digest is   *)
(* non-empty and of at most one chunk size, the chunks fed so far joined in *)
(* order are the content up to the read offset, and the loop ends at the    *)
(* first empty read, which is at the end of the content; the digest         *)
(* returned is that of the whole content absorbed at once. This for files   *)
(* of length 0, below one chunk, a multiple of the chunk size, and not.     *)
C25_Streaming ==
    InHashFile =>
        LET content == CurrentFile.content
        IN  /\ \A k \in DOMAIN chunks :
                   Len(chunks[k]) >= 1 /\ Len(chunks[k]) <= ChunkSize
            /\ Concat(chunks) = SubSeq(content, 1, pos)
            /\ HexDigest(sha256) = WholeDigest(SubSeq(content, 1, pos))
            /\ AtEof =>
                   /\ pos = Len(content)
                   /\ Concat(chunks) = content
                   /\ HexDigest(sha256) = WholeDigest(content)

\* hash_file is at the end of a file of three blocks: it has fed the digest
\* a chunk of two blocks, then a chunk of one.
C25_Witness ==
    /\ InHashFile
    /\ AtEof
    /\ Len(CurrentFile.content) = 3
    /\ Len(chunks) = 2
    /\ Len(chunks[1]) = ChunkSize
    /\ Len(chunks[2]) = 1

\* Step 2 has begun: folder2 is listed, or an entry of it has been handled.
ClassifyBegun ==
    \/ pc \in {"scan", "hash_cand", "done"}
    \/ j > 0
    \/ duplicates # <<>>
    \/ copied # <<>>
    \/ \E k \in DOMAIN hashed : hashed[k][1] = "cand"

(* C26: The three steps follow one another. Once Step 2 has begun, every    *)
(* file of folder1 has its digest in the dictionary; the dictionary changes *)
(* only in the walk of folder1, before Step 2; and when something has been  *)
(* printed, every entry of folder2 has been handled, each regular file      *)
(* reported or copied.                                                      *)
C26_PhaseOrdering ==
    /\ [](ClassifyBegun =>
              /\ i = Len(refFiles)
              /\ \A k \in DOMAIN refFiles :
                     InIndex(folder1_hashes, hash_file(refFiles[k].content)))
    /\ [][folder1_hashes' # folder1_hashes =>
              pc = "hash_ref" /\ ~ClassifyBegun]_vars
    /\ [](stdout # <<>> =>
              /\ j = Len(candEntries)
              /\ Len(duplicates) + Len(copied) = Cardinality(RegularCands)
              /\ \A k \in DOMAIN copied : outFiles[copied[k]].kind = "file")

\* hash_file reads a candidate: the two files of folder1 are in the
\* dictionary under two digests and nothing has been printed.
C26_Witness ==
    /\ pc = "hash_cand"
    /\ i = 2
    /\ Cardinality(DOMAIN folder1_hashes) = 2
    /\ stdout = <<>>

\* The regular files among the first n entries of the listing of folder2.
RegularBefore(n) == {k \in 1..n : IsFile(candEntries[k])}

(* C27: The run is sequential: at most one file is open at any time, and    *)
(* it is the file hash_file is reading; when a file is open, every file     *)
(* hashed before it is closed and its digest has been put in the            *)
(* dictionary (a file of folder1) or used to report or copy it (a file of   *)
(* folder2).                                                                *)
C27_Sequential ==
    /\ Cardinality(handles) <= 1
    /\ handles # {} =>
           /\ InHashFile
           /\ handles = {<<IF pc = "hash_ref" THEN "ref" ELSE "cand",
                           PathOf(IF pc = "hash_ref" THEN "ref" ELSE "cand",
                                  CurrentFile)>>}
    /\ pc = "hash_ref" =>
           /\ Len(hashed) = i
           /\ \A k \in 1..i :
                  /\ hashed[k] = <<"ref", refFiles[k].path>>
                  /\ InIndex(folder1_hashes, hash_file(refFiles[k].content))
    /\ pc = "hash_cand" =>
           /\ Len(hashed) = i + Cardinality(RegularBefore(j))
           /\ Len(duplicates) + Len(copied) = Cardinality(RegularBefore(j))

\* "sub/b" is open for hashing and nothing else is: "a", hashed before it,
\* is closed and in the dictionary.
C27_Witness ==
    /\ pc = "hash_ref"
    /\ i = 1
    /\ handles = {<<"ref", <<"sub", "b">>>>}
    /\ hashed = <<<<"ref", <<"a">>>>>>
    /\ Cardinality(DOMAIN folder1_hashes) = 1

\* Two regular files of folder2 of one content that no file of folder1 has.
Twins(e1, e2) ==
    /\ e1 \in RegularCands
    /\ e2 \in RegularCands
    /\ e1.name # e2.name
    /\ e1.content = e2.content
    /\ e1.content \notin RefContents

(* C28: The candidates are not compared with one another: of two files of   *)
(* folder2 with the same content, absent from folder1, a run that completes *)
(* has copied both and counted both, and reported neither; the dictionary   *)
(* holds digests of files of folder1 only.                                  *)
C28_NoCandidateDedup ==
    /\ DOMAIN folder1_hashes \subseteq RefDigests(i)
    /\ pc = "done" =>
           \A e1 \in RegularCands : \A e2 \in RegularCands :
               Twins(e1, e2) =>
                   /\ e1.name \in Range(copied)
                   /\ e2.name \in Range(copied)
                   /\ outFiles[e1.name].content = e1.content
                   /\ outFiles[e2.name].content = e2.content
                   /\ e1.name \notin Range(duplicates)
                   /\ e2.name \notin Range(duplicates)
                   /\ unique_count >= 2

\* folder2 held "a" and "c" of one content, folder1 a file of another: the
\* run copied both and counted 2.
C28_Witness ==
    /\ pc = "done"
    /\ refFiles # <<>>
    /\ \E e1 \in RegularCands : \E e2 \in RegularCands : Twins(e1, e2)
    /\ copied = <<"a", "c">>
    /\ unique_count = 2

(* C29: The writes of a run are the creation of the output folder and the   *)
(* files written in it under the names of files of folder2: no step        *)
(* changes folder1 or folder2 (every candidate stays, with its content),    *)
(* the output folder changes only from absent to a folder, a file of it     *)
(* changes only to a copy of the candidate of its name, and no file of it   *)
(* is removed.                                                              *)
C29_WriteFootprint ==
    [][/\ fsIn' = fsIn
       /\ outKind' # outKind =>
              outKind = "absent" /\ outKind' = "dir" /\ pc = "start"
       /\ \A n \in OutNames :
              /\ outFiles[n].kind = "file" => outFiles'[n].kind = "file"
              /\ outFiles'[n] # outFiles[n] =>
                     /\ pc = "hash_cand"
                     /\ CurrentFile.name = n
                     /\ outFiles'[n].kind = "file"
                     /\ outFiles'[n].content = CurrentFile.content]_vars

\* A run has ended that made the output folder and copied "a" and "c" into
\* it: both are still in folder2.
C29_Witness ==
    /\ pc = "done"
    /\ created
    /\ copied = <<"a", "c">>
    /\ outFiles["a"].kind = "file"
    /\ outFiles["c"].kind = "file"
    /\ Cardinality(RegularCands) = 2

====
